---- MODULE Spec2Model ----
(***************************************************************************)
(* The OAuth2 authorization-code flow server of src/main.go (lines 35-285):*)
(* the gin routes /login, /callback, /logout and /profile, the cookie-      *)
(* backed session that carries the CSRF state, the credential cookies and  *)
(* the IsAuthenticated route guard.                                        *)
(*                                                                         *)
(* Each browser is one session: it keeps a cookie jar (RFC 6265) and sends *)
(* the live cookies of the jar with every request.  The identity provider  *)
(* (token endpoint, user-info endpoint) is the environment: it answers a   *)
(* call with one of the outcomes the Go client libraries can return.       *)
(*                                                                         *)
(* Strings the program treats as opaque (random states, codes, tokens,     *)
(* bodies) are modelled by short names.  gin's SetCookie query-escapes a   *)
(* value and Context.Cookie unescapes it; the jar below keeps the          *)
(* unescaped value, the escaping itself is not part of this model.         *)
(***************************************************************************)
EXTENDS Integers, FiniteSets, Sequences, TLC

(***************************************************************************)
(* Bounds of the model.                                                    *)
(***************************************************************************)
\* number of distinct strings the random source can produce
MaxRand == 2
\* number of authorization codes the provider can issue
MaxCodes == 1
\* number of callback requests that can be waiting for the provider at once
MaxInflight == 1
\* number of callback requests that can wait at once where two of them race
MaxRacing == 2
\* number of times the clock advances
MaxTicks == 1
\* seconds the clock advances by in one step
TickStep == 4000
\* time.Now().Unix() when the server starts (a date in November 2023)
StartTime == 1700000000

(***************************************************************************)
(* Program constants.                                                      *)
(***************************************************************************)
\* 1*time.Hour, in seconds (the unit of Unix())
Hour == 3600
\* gorilla/sessions default Options.MaxAge of the cookie store: 30 days
SessionMaxAge == 2592000
StatusOK == 200
StatusTemporaryRedirect == 307
StatusBadRequest == 400
StatusInternalServerError == 500

\* the sessions: every browser with its own cookie jar is one
Browsers == {"b1", "b2"}
\* the browsers that go through the whole flow; the others only start
\* logins, which is how a state value issued to another session comes about
FlowBrowsers == {"b1"}
\* the host the application is served on (README: http://localhost:9090)
Host == "localhost"
ClientID == "AUTH0_CLIENT_ID"
Auth0Domain == "AUTH0_DOMAIN"
\* oauth2.Config.RedirectURL
CallbackURL == "AUTH0_CALLBACK_URL"

StateNames == <<"s1", "s2", "s3", "s4">>
CodeNames == <<"c1", "c2", "c3", "c4">>
\* what generateRandomString can return: base64 of 32 random bytes
RandomStrings == {StateNames[i] : i \in 1..MaxRand}
\* the codes of the provider
Codes == {CodeNames[i] : i \in 1..MaxCodes}
\* the state query parameter of a callback: an issued-looking value, a value
\* never issued, or "" (ctx.Query of a missing parameter)
QueryStates == RandomStrings \cup {"xyz", ""}
\* the code query parameter of a callback
QueryCodes == Codes \cup {"bad"}
\* the Host header of a request: the second one is accepted by net/http
\* (every byte is a valid host byte) and is rejected by url.Parse (bad port)
HostHeaders == {"localhost:9090", "localhost:x"}
Slots == 1..MaxInflight
\* the requests gin serves at once, each in its own goroutine, where two
\* callbacks of one session race
RaceSlots == 1..MaxRacing

\* the value of a ghost field that records "no state was issued"
NoneIssued == "<none>"

VARIABLES
  now,         \* the wall clock, time.Now().Unix()
  jar,         \* jar[b]: the cookies browser b stores
  codeStatus,  \* provider: codeStatus[c] is "none", "issued" or "used"
  inflight,    \* inflight[k]: a callback request waiting for the provider
  last,        \* the request answered last, with its response
  lastIssued,  \* history: the state the last redirecting /login gave b
  prevIssued,  \* history: the state the /login before that gave b
  passCount,   \* history: callbacks of b that passed the state check since
               \* the last redirecting /login of b (counted up to 2)
  granted,     \* history: access tokens a callback stored in a cookie
  authed       \* history: b completed a callback in which the state
               \* matched, the exchange succeeded, the token was valid and
               \* the user-info fetch succeeded, and has not logged out since

vars == <<now, jar, codeStatus, inflight, last, lastIssued, prevIssued,
          passCount, granted, authed>>

(***************************************************************************)
(* HTTP responses.                                                         *)
(***************************************************************************)
NoLocation == [to |-> "", state |-> "", returnTo |-> "", client_id |-> ""]

\* ctx.String / ctx.JSON / ctx.HTML: a status and a body, no Location
Respond(status, body, cookies) ==
  [status |-> status, body |-> body, location |-> NoLocation,
   cookies |-> cookies]

\* ctx.JSON(status, s) of a Go string s: the body is its JSON encoding
JSON(status, s, cookies) == Respond(status, "\"" \o s \o "\"", cookies)

\* url.QueryEscape, on the strings the program puts in a query: the two
\* return addresses have bytes that are escaped; the other strings of the
\* model (names made of letters, digits and _) have none
QueryEscape(s) ==
  CASE s = "http://localhost:9090" -> "http%3A%2F%2Flocalhost%3A9090"
    [] s = "https://localhost:9090" -> "https%3A%2F%2Flocalhost%3A9090"
    [] OTHER -> s

\* the URL of a Location, its query built by url.Values.Encode (keys in
\* sorted order); amp is what stands between two parameters: "&" in the
\* URL itself, "&amp;" in its HTML-escaped form
LocationString(loc, amp) ==
  IF loc.to = "authorize"
  THEN "https://" \o Auth0Domain \o "/authorize?client_id="
         \o QueryEscape(loc.client_id)
         \o amp \o "redirect_uri=" \o QueryEscape(CallbackURL)
         \o amp \o "response_type=code"
         \o amp \o "scope=openid+profile+email+picture"
         \o (IF loc.state = "" THEN ""
            ELSE amp \o "state=" \o QueryEscape(loc.state))
  ELSE IF loc.client_id # ""
  THEN loc.to \o "?client_id=" \o QueryEscape(loc.client_id)
         \o amp \o "returnTo=" \o QueryEscape(loc.returnTo)
  ELSE loc.to

\* http.StatusText
StatusText(status) ==
  CASE status = StatusTemporaryRedirect -> "Temporary Redirect"
    [] OTHER -> ""

\* the body net/http.Redirect writes for a GET request: a link to the
\* HTML-escaped URL
RedirectBody(status, location) ==
  "<a href=\"" \o LocationString(location, "&amp;") \o "\">"
    \o StatusText(status) \o "</a>.\n\n"

\* ctx.Redirect(code, location)
Redirect(status, location, cookies) ==
  [status |-> status, body |-> RedirectBody(status, location),
   location |-> location, cookies |-> cookies]

LocalPath(p) == [to |-> p, state |-> "", returnTo |-> "", client_id |-> ""]

(***************************************************************************)
(* Cookies.  gin.Context.SetCookie(name, value, maxAge, path, domain,      *)
(* secure, httpOnly) adds one Set-Cookie header to the response.           *)
(***************************************************************************)
SetCookie(name, value, maxAge, path, domain, secure, httpOnly) ==
  [name |-> name, value |-> value, maxAge |-> maxAge, path |-> path,
   domain |-> domain, secure |-> secure, httpOnly |-> httpOnly]

\* RFC 6265 5.3: the domain a cookie is stored under is its Domain
\* attribute, or the request host when the attribute is empty
StoredDomain(c) == IF c.domain = "" THEN Host ELSE c.domain

\* RFC 6265 5.3 step 11: name, domain and path identify a stored cookie
CookieKey(c) == <<c.name, StoredDomain(c), c.path>>

\* net/http Cookie.String: MaxAge > 0 is sent as Max-Age=<n>, MaxAge < 0 as
\* Max-Age=0 (delete now), MaxAge = 0 sends no Max-Age (a session cookie)
Stored(c, t) ==
  [name |-> c.name, value |-> c.value, domain |-> StoredDomain(c),
   path |-> c.path, secure |-> c.secure, httpOnly |-> c.httpOnly,
   setAt |-> t, maxAge |-> c.maxAge]

\* a stored cookie is live until its Max-Age has elapsed
Live(c, t) == c.maxAge = 0 \/ (c.maxAge > 0 /\ t - c.setAt < c.maxAge)

\* the jar after the Set-Cookie headers of a response received at time t
\* (RFC 6265 5.3: a cookie replaces the stored one of the same key; a
\* negative MaxAge, sent as Max-Age=0, only removes it)
StoreAll(j, cs, t) ==
  LET keys == {CookieKey(c) : c \in cs}
      rest == {x \in j : <<x.name, x.domain, x.path>> \notin keys}
  IN  rest \cup {Stored(c, t) : c \in {d \in cs : d.maxAge >= 0}}

\* the Cookie header built from a jar at time t: name/value pairs.  Every
\* cookie of the program has path "/" and is stored under Host, which
\* browsers treat as a secure context: a cookie marked Secure is sent too.
LiveCookies(j, t) ==
  {[name |-> c.name, value |-> c.value] : c \in {x \in j : Live(x, t)}}

\* the Cookie header browser b sends at time t
RequestCookies(b, t) == LiveCookies(jar[b], t)

\* gin.Context.Cookie(name): the value, or http.ErrNoCookie
Cookie(cookies, name) ==
  IF \E c \in cookies : c.name = name
  THEN [err |-> FALSE, value |-> (CHOOSE c \in cookies : c.name = name).value]
  ELSE [err |-> TRUE, value |-> ""]

(***************************************************************************)
(* The session of gin-contrib/sessions with the cookie store: the values   *)
(* of the session travel in the auth-session cookie.                       *)
(***************************************************************************)
Nil == [type |-> "nil", val |-> ""]
Str(s) == [type |-> "string", val |-> s]

\* session.Get("state"): the stored string, or nil when the session has none
SessionGet(cookies) ==
  LET c == Cookie(cookies, "auth-session")
  IN  IF c.err THEN Nil ELSE Str(c.value)

\* session.Set("state", v); session.Save(): the Set-Cookie of the store
SessionSave(state) ==
  SetCookie("auth-session", state, SessionMaxAge, "/", "", FALSE, FALSE)

\* the ghost form of a session value
Pending(cookies) ==
  LET s == SessionGet(cookies)
  IN  IF s.type = "nil" THEN NoneIssued ELSE s.val

(***************************************************************************)
(* GET /login                                                              *)
(***************************************************************************)
\* generateRandomString: rand.Read fails, or a fresh base64 string
generateRandomString(readOk, s) ==
  IF ~readOk THEN [err |-> TRUE, state |-> ""]
  ELSE [err |-> FALSE, state |-> s]

\* oauth2.Config.AuthCodeURL(state)
AuthCodeURL(state) ==
  [to |-> "authorize", state |-> state, returnTo |-> "",
   client_id |-> ClientID]

\* loginHandler without session.Set/Save: the redirect carries a state the
\* session does not hold
loginHandler_NoSave(gen, saveOk) ==
  IF gen.err
  THEN Respond(StatusInternalServerError, "entropy error", {})
  ELSE Redirect(StatusTemporaryRedirect, AuthCodeURL(gen.state), {})

\* loginHandler without its two error checks
loginHandler_NoErrCheck(gen, saveOk) ==
  Redirect(StatusTemporaryRedirect, AuthCodeURL(gen.state),
           IF saveOk /\ ~gen.err THEN {SessionSave(gen.state)} ELSE {})

\* loginHandler saving another value than the one its redirect carries
loginHandler_SavesOther(gen, saveOk) ==
  IF gen.err
  THEN Respond(StatusInternalServerError, "entropy error", {})
  ELSE IF ~saveOk
  THEN Respond(StatusInternalServerError, "session save error", {})
  ELSE Redirect(StatusTemporaryRedirect, AuthCodeURL(gen.state),
                {SessionSave("xyz")})

\* lines 100-115; saveOk is whether session.Save() returns nil
loginHandler(gen, saveOk) ==
  IF gen.err
  THEN Respond(StatusInternalServerError, "entropy error", {})
  ELSE IF ~saveOk
  THEN Respond(StatusInternalServerError, "session save error", {})
  ELSE Redirect(StatusTemporaryRedirect, AuthCodeURL(gen.state),
                {SessionSave(gen.state)})

(***************************************************************************)
(* GET /logout                                                             *)
(***************************************************************************)
\* url.Parse of the two URLs the handler builds
UrlParseOk(raw) == raw \notin {"http://localhost:x", "https://localhost:x"}

\* lines 159-160: maxAge is the Unix time of one hour ago
ClearingCookies(t) ==
  {SetCookie("access_token", "", t - Hour, "/", "", FALSE, TRUE),
   SetCookie("profile", "", t - Hour, "/", "", FALSE, TRUE)}

\* logoutHandler with the cookies cleared after the URLs are built
logoutHandler_ClearLast(hostHeader, tls, t) ==
  LET logoutUrl == "https://" \o Auth0Domain \o "/v2/logout"
      scheme == IF tls THEN "https" ELSE "http"
      returnTo == scheme \o "://" \o hostHeader
  IN  IF ~UrlParseOk(logoutUrl) \/ ~UrlParseOk(returnTo)
      THEN Respond(StatusInternalServerError, "parse error", {})
      ELSE Redirect(StatusTemporaryRedirect,
                    [to |-> logoutUrl, state |-> "", returnTo |-> returnTo,
                     client_id |-> ClientID],
                    ClearingCookies(t))

\* lines 157-185; t is time.Now().Unix(), tls is ctx.Request.TLS != nil
logoutHandler(hostHeader, tls, t) ==
  LET cookies == ClearingCookies(t)
      logoutUrl == "https://" \o Auth0Domain \o "/v2/logout"
      scheme == IF tls THEN "https" ELSE "http"
      returnTo == scheme \o "://" \o hostHeader
  IN  IF ~UrlParseOk(logoutUrl)
      THEN Respond(StatusInternalServerError, "parse error", cookies)
      ELSE IF ~UrlParseOk(returnTo)
      THEN Respond(StatusInternalServerError, "parse error", cookies)
      ELSE Redirect(StatusTemporaryRedirect,
                    [to |-> logoutUrl, state |-> "", returnTo |-> returnTo,
                     client_id |-> ClientID],
                    cookies)

(***************************************************************************)
(* GET /profile: the IsAuthenticated guard, then the protected handler.    *)
(***************************************************************************)
\* the body the user-info endpoint returns for a good token
ProfileBody == "{\"sub\":\"u1\"}"

\* json.Unmarshal([]byte(profile), &p): p stays the zero value on an error
Unmarshal(s) ==
  IF s = ProfileBody THEN [err |-> FALSE, sub |-> "u1"]
  ELSE [err |-> TRUE, sub |-> ""]

\* IsAuthenticated: allow is ctx.Next(), otherwise the redirect to /
IsAuthenticated(cookies) ==
  LET c == Cookie(cookies, "access_token")
  IN  IF c.err
      THEN [allow |-> FALSE,
            resp |-> Redirect(StatusTemporaryRedirect, LocalPath("/"), {})]
      ELSE IF c.value = ""
      THEN [allow |-> FALSE,
            resp |-> Redirect(StatusTemporaryRedirect, LocalPath("/"), {})]
      ELSE [allow |-> TRUE, resp |-> Respond(0, "", {})]

\* the handler of the /profile route
profileHandler(cookies) ==
  LET c == Cookie(cookies, "profile")
  IN  IF c.err
      THEN Redirect(StatusTemporaryRedirect, LocalPath("/"), {})
      ELSE Respond(StatusOK, "profile.html:" \o Unmarshal(c.value).sub, {})

\* cookies a client other than a browser with its jar can send
CraftedCookies ==
  {{},
   {[name |-> "access_token", value |-> ""]},
   {[name |-> "access_token", value |-> "forged"]},
   {[name |-> "access_token", value |-> "forged"],
    [name |-> "profile", value |-> "{not json"]}}

(***************************************************************************)
(* GET /callback                                                           *)
(***************************************************************************)
\* the check that lets a request through when the session has no state
StateMismatch_NilPasses(q, sess) == sess.type = "string" /\ sess.val # q

\* the comparison if a session without a state read as the empty string
StateMismatch_EmptyIsNil(q, sess) ==
  q # (IF sess.type = "nil" THEN "" ELSE sess.val)

\* ctx.Query("state") != session.Get("state"): a string against an
\* interface{}; they are equal only if the interface holds that string
StateMismatch(q, sess) == ~(sess.type = "string" /\ sess.val = q)

\* *oauth2.Token; NilToken is the nil pointer Exchange returns with an error
NilToken == [accessToken |-> "", expired |-> FALSE]
TokenOf(code) == [accessToken |-> "at_" \o code, expired |-> FALSE]
ExpiredTokenOf(code) == [accessToken |-> "at_" \o code, expired |-> TRUE]

\* Token.Valid(): t != nil && t.AccessToken != "" && !t.expired()
Valid(t) == t.accessToken # "" /\ ~t.expired

\* what oauth2.Config.Exchange returns for a code, given the provider's
\* record of it: only a code that was issued and not yet exchanged can be
\* exchanged; every call can fail
ExchangeResults(code, status) ==
  {[err |-> TRUE, token |-> NilToken]} \cup
  (IF code \in Codes /\ status = "issued"
   THEN {[err |-> FALSE, token |-> TokenOf(code)],
         [err |-> FALSE, token |-> ExpiredTokenOf(code)]}
   ELSE {})

\* what client.Get(".../userinfo") returns: a transport error, or a
\* response of any status, its body not yet read
UserInfoResults ==
  {[err |-> TRUE, status |-> 0],
   [err |-> FALSE, status |-> 200],
   [err |-> FALSE, status |-> 401]}

\* what ioutil.ReadAll(resp.Body) returns for a response of the given
\* status: a read error, or the body
ReadAllResults(status) ==
  {[err |-> TRUE, body |-> ""],
   [err |-> FALSE,
    body |-> IF status = 200 THEN ProfileBody ELSE "Unauthorized"]}

\* callbackAfterExchange without the check of Exchange's error
callbackAfterExchange_ErrIgnored(res) ==
  IF ~Valid(res.token)
  THEN [done |-> TRUE,
        resp |-> JSON(StatusInternalServerError,
                      "invalid access token", {})]
  ELSE [done |-> FALSE, resp |-> Respond(0, "", {})]

\* lines 126-135: the response that ends the request after the exchange,
\* or done = FALSE when the handler goes on to the user-info fetch
callbackAfterExchange(res) ==
  IF res.err
  THEN [done |-> TRUE,
        resp |-> JSON(StatusInternalServerError,
                      "could not exchange oauth code", {})]
  ELSE IF ~Valid(res.token)
  THEN [done |-> TRUE,
        resp |-> JSON(StatusInternalServerError,
                      "invalid access token", {})]
  ELSE [done |-> FALSE, resp |-> Respond(0, "", {})]

\* lines 137-142: the response that ends the request when client.Get
\* returns get, or done = FALSE when the handler goes on to read the body
callbackAfterUserInfo(get) ==
  IF get.err
  THEN [done |-> TRUE,
        resp |-> JSON(StatusInternalServerError,
                      "invalid access token", {})]
  ELSE [done |-> FALSE, resp |-> Respond(0, "", {})]

\* lines 144-153: the response after ReadAll returned rd at time t; maxAge
\* is the Unix time of one hour from now
callbackAfterReadAll(token, rd, t) ==
  IF rd.err
  THEN JSON(StatusInternalServerError, "read error", {})
  ELSE Redirect(StatusTemporaryRedirect, LocalPath("/profile"),
         {SetCookie("access_token", token.accessToken, t + Hour, "/",
                    "localhost", TRUE, FALSE),
          SetCookie("profile", rd.body, t + Hour, "/",
                    "localhost", TRUE, FALSE)})

(***************************************************************************)
(* The state machine.                                                      *)
(***************************************************************************)
\* a request that waits for the provider: where it waits, whose it is, its
\* code and token, and what is known of it for the response's record.
\* fresh is history: the request passed the state comparison and its
\* session has had no redirecting /login since.  uiStatus is the status of
\* the user-info response whose body the request is reading.
Idle ==
  [pc |-> "idle", browser |-> "", code |-> "", token |-> NilToken,
   matched |-> FALSE, qIsIssued |-> FALSE, codeWas |-> "",
   hadState |-> FALSE, fresh |-> FALSE, uiStatus |-> 0]

\* the fields of last; an action sets the ones its route has.  codeWas is
\* what the provider knew of the code when the request was rejected or when
\* its exchange was answered; the ...AtReq fields are read when the request
\* arrives; credBefore and credAfter are the access_token of the jar before
\* and after the response (of a /profile request: the one it sent);
\* hadState is whether the session of a callback held a state at all;
\* credAge is the time since the access_token cookie of a /profile request
\* was set; profileErr is whether json.Unmarshal failed on its profile.
BaseLast ==
  [route |-> "none", browser |-> "", status |-> 0, body |-> "",
   location |-> NoLocation, cookies |-> {},
   qstate |-> "", code |-> "", issuedAtReq |-> NoneIssued,
   prevAtReq |-> NoneIssued, qIsIssued |-> FALSE, stateMatched |-> FALSE,
   exchangeAttempted |-> FALSE, exchangeOk |-> FALSE, tokenValid |-> FALSE,
   userinfoOk |-> FALSE, codeWas |-> "",
   genFailed |-> FALSE, saveFailed |-> FALSE, genState |-> "",
   sessBefore |-> NoneIssued, sessAfter |-> NoneIssued,
   credBefore |-> "", credAfter |-> "",
   hostHeader |-> "", tls |-> FALSE,
   handlerRan |-> FALSE, credValid |-> FALSE,
   hadState |-> FALSE, credAge |-> 0, profileErr |-> FALSE]

WithResponse(l, resp) ==
  [l EXCEPT !.status = resp.status, !.body = resp.body,
            !.location = resp.location, !.cookies = resp.cookies]

\* the access_token a jar would present at time t ("" when it has none)
Credential(j, t) == Cookie(LiveCookies(j, t), "access_token").value

\* the seconds since the access_token cookie a jar presents at time t was
\* set (0 when it presents none)
CredentialAge(j, t) ==
  LET cs == {c \in j : c.name = "access_token" /\ Live(c, t)}
  IN  IF cs = {} THEN 0 ELSE t - (CHOOSE c \in cs : TRUE).setAt

Init ==
  /\ now = StartTime
  /\ jar = [b \in Browsers |-> {}]
  /\ codeStatus = [c \in Codes |-> "none"]
  /\ inflight = [k \in Slots |-> Idle]
  /\ last = BaseLast
  /\ lastIssued = [b \in Browsers |-> NoneIssued]
  /\ prevIssued = [b \in Browsers |-> NoneIssued]
  /\ passCount = [b \in Browsers |-> 0]
  /\ granted = {}
  /\ authed = [b \in Browsers |-> FALSE]

\* GET /login of browser b
Login(b, readOk, s, saveOk) ==
  LET gen == generateRandomString(readOk, s)
      resp == loginHandler(gen, saveOk)
      j2 == StoreAll(jar[b], resp.cookies, now)
      redirected == resp.location.to = "authorize"
  IN  /\ jar' = [jar EXCEPT ![b] = j2]
      /\ lastIssued' = IF redirected
                       THEN [lastIssued EXCEPT ![b] = resp.location.state]
                       ELSE lastIssued
      /\ prevIssued' = IF redirected
                       THEN [prevIssued EXCEPT ![b] = lastIssued[b]]
                       ELSE prevIssued
      /\ passCount' = IF redirected THEN [passCount EXCEPT ![b] = 0]
                      ELSE passCount
      /\ last' = WithResponse(
                   [BaseLast EXCEPT
                      !.route = "login", !.browser = b,
                      !.genFailed = gen.err, !.genState = gen.state,
                      !.saveFailed = ~gen.err /\ ~saveOk,
                      !.sessBefore = Pending(RequestCookies(b, now)),
                      !.sessAfter = Pending(LiveCookies(j2, now))],
                   resp)
      /\ inflight' = [k \in DOMAIN inflight |->
                        IF redirected /\ inflight[k].browser = b
                        THEN [inflight[k] EXCEPT !.fresh = FALSE]
                        ELSE inflight[k]]
      /\ UNCHANGED <<now, codeStatus, granted, authed>>

\* the provider shows its login page and issues authorization code c
ProviderIssueCode(c) ==
  /\ codeStatus[c] = "none"
  /\ codeStatus' = [codeStatus EXCEPT ![c] = "issued"]
  /\ UNCHANGED <<now, jar, inflight, last, lastIssued, prevIssued,
                 passCount, granted, authed>>

\* what the provider knows of a code ("bad" is no code of the provider)
ProviderStatus(code) == IF code \in Codes THEN codeStatus[code] ELSE "none"

FreeSlots == {k \in DOMAIN inflight : inflight[k].pc = "idle"}
Min(S) == CHOOSE x \in S : \A y \in S : x <= y
Inc(n) == IF n < 2 THEN n + 1 ELSE n

\* GET /callback?state=q&code=code of browser b, lines 119-125: the state
\* check, and then the call of Exchange, which waits for the provider
CallbackBegin(b, q, code) ==
  LET cookies == RequestCookies(b, now)
      sess == SessionGet(cookies)
      matched == sess.type = "string" /\ sess.val = q
      req == [BaseLast EXCEPT
                !.route = "callback", !.browser = b, !.qstate = q,
                !.code = code, !.issuedAtReq = lastIssued[b],
                !.prevAtReq = prevIssued[b],
                !.qIsIssued = (q = lastIssued[b]),
                !.codeWas = ProviderStatus(code),
                !.stateMatched = matched,
                !.hadState = (sess.type = "string")]
  IN  IF StateMismatch(q, sess)
      THEN /\ last' = WithResponse(req,
                        Respond(StatusBadRequest,
                                "Invalid state parameter.", {}))
           /\ UNCHANGED <<now, jar, codeStatus, inflight, lastIssued,
                          prevIssued, passCount, granted, authed>>
      ELSE /\ FreeSlots # {}
           /\ inflight' =
                [inflight EXCEPT ![Min(FreeSlots)] =
                   [Idle EXCEPT !.pc = "exchange", !.browser = b,
                                !.code = code, !.matched = matched,
                                !.qIsIssued = (q = lastIssued[b]),
                                !.hadState = (sess.type = "string"),
                                !.fresh = TRUE]]
           /\ passCount' = [passCount EXCEPT ![b] = Inc(@)]
           /\ UNCHANGED <<now, jar, codeStatus, last, lastIssued,
                          prevIssued, granted, authed>>

\* the request of slot k, as last records it when it is answered
Answered(r, b) ==
  [BaseLast EXCEPT
     !.route = "callback", !.browser = b, !.code = r.code,
     !.qIsIssued = r.qIsIssued, !.stateMatched = r.matched,
     !.hadState = r.hadState,
     !.exchangeAttempted = TRUE,
     !.codeWas = r.codeWas,
     !.credBefore = Credential(jar[b], now),
     !.credAfter = Credential(jar[b], now)]

\* Exchange returns res to the request of slot k, lines 126-135
ExchangeReturns(k, res) ==
  LET r == inflight[k]
      step == callbackAfterExchange(res)
  IN  /\ r.pc = "exchange"
      /\ res \in ExchangeResults(r.code, ProviderStatus(r.code))
      /\ codeStatus' = IF res.err THEN codeStatus
                       ELSE [codeStatus EXCEPT ![r.code] = "used"]
      /\ IF step.done
         THEN /\ inflight' = [inflight EXCEPT ![k] = Idle]
              /\ last' = WithResponse(
                           [Answered(r, r.browser) EXCEPT
                              !.codeWas = ProviderStatus(r.code),
                              !.exchangeOk = ~res.err,
                              !.tokenValid = ~res.err /\ Valid(res.token)],
                           step.resp)
         ELSE /\ inflight' = [inflight EXCEPT ![k] =
                                [r EXCEPT !.pc = "userinfo",
                                          !.token = res.token,
                                          !.codeWas =
                                             ProviderStatus(r.code)]]
              /\ UNCHANGED last
      /\ UNCHANGED <<now, jar, lastIssued, prevIssued, passCount, granted,
                     authed>>

\* client.Get returns get to the request of slot k, lines 137-142
UserInfoReturns(k, get) ==
  LET r == inflight[k]
      b == r.browser
      step == callbackAfterUserInfo(get)
  IN  /\ r.pc = "userinfo"
      /\ get \in UserInfoResults
      /\ IF step.done
         THEN /\ inflight' = [inflight EXCEPT ![k] = Idle]
              /\ last' = WithResponse(
                           [Answered(r, b) EXCEPT
                              !.exchangeOk = TRUE,
                              !.tokenValid = Valid(r.token)],
                           step.resp)
         ELSE /\ inflight' = [inflight EXCEPT ![k] =
                                [r EXCEPT !.pc = "readall",
                                          !.uiStatus = get.status]]
              /\ UNCHANGED last
      /\ UNCHANGED <<now, jar, codeStatus, lastIssued, prevIssued,
                     passCount, granted, authed>>

\* ioutil.ReadAll returns rd to the request of slot k, lines 144-153
ReadAllReturns(k, rd) ==
  LET r == inflight[k]
      b == r.browser
      resp == callbackAfterReadAll(r.token, rd, now)
      j2 == StoreAll(jar[b], resp.cookies, now)
      fetched == ~rd.err /\ r.uiStatus = 200
  IN  /\ r.pc = "readall"
      /\ rd \in ReadAllResults(r.uiStatus)
      /\ inflight' = [inflight EXCEPT ![k] = Idle]
      /\ jar' = [jar EXCEPT ![b] = j2]
      /\ granted' = granted \cup
                    {c.value : c \in {d \in resp.cookies :
                                        d.name = "access_token"}}
      /\ authed' = IF r.matched /\ Valid(r.token) /\ fetched
                   THEN [authed EXCEPT ![b] = TRUE] ELSE authed
      /\ last' = WithResponse(
                   [Answered(r, b) EXCEPT
                      !.exchangeOk = TRUE,
                      !.tokenValid = Valid(r.token),
                      !.userinfoOk = fetched,
                      !.credAfter = Credential(j2, now)],
                   resp)
      /\ UNCHANGED <<now, codeStatus, lastIssued, prevIssued, passCount>>

\* GET /logout of browser b with Host header h, over TLS or not
Logout(b, h, tls) ==
  LET resp == logoutHandler(h, tls, now)
      j2 == StoreAll(jar[b], resp.cookies, now)
  IN  /\ jar' = [jar EXCEPT ![b] = j2]
      /\ authed' = [authed EXCEPT ![b] = FALSE]
      /\ last' = WithResponse(
                   [BaseLast EXCEPT
                      !.route = "logout", !.browser = b,
                      !.hostHeader = h, !.tls = tls],
                   resp)
      /\ UNCHANGED <<now, codeStatus, inflight, lastIssued, prevIssued,
                     passCount, granted>>

\* GET /profile carrying the given cookies
ProfileRequest(who, cookies) ==
  LET guard == IsAuthenticated(cookies)
      resp == IF guard.allow THEN profileHandler(cookies) ELSE guard.resp
      tok == Cookie(cookies, "access_token")
      prof == Cookie(cookies, "profile")
  IN  /\ last' = WithResponse(
                   [BaseLast EXCEPT
                      !.route = "profile", !.browser = who,
                      !.handlerRan = guard.allow,
                      !.credValid = ~tok.err /\ tok.value # ""
                                    /\ tok.value \in granted,
                      !.credBefore = tok.value,
                      !.credAge = IF who \in Browsers
                                  THEN CredentialAge(jar[who], now) ELSE 0,
                      !.profileErr = ~prof.err /\ Unmarshal(prof.value).err],
                   resp)
      /\ UNCHANGED <<now, jar, codeStatus, inflight, lastIssued,
                     prevIssued, passCount, granted, authed>>

\* GET /profile of browser b
Profile(b) == ProfileRequest(b, RequestCookies(b, now))

\* GET /profile of a client that writes its Cookie header itself
ProfileCrafted(cookies) == ProfileRequest("client", cookies)

\* time passes
Tick ==
  /\ now < StartTime + MaxTicks * TickStep
  /\ now' = now + TickStep
  /\ UNCHANGED <<jar, codeStatus, inflight, last, lastIssued, prevIssued,
                 passCount, granted, authed>>

Next ==
  \/ \E b \in Browsers, readOk \in BOOLEAN, s \in RandomStrings,
        saveOk \in BOOLEAN : Login(b, readOk, s, saveOk)
  \/ \E c \in Codes : ProviderIssueCode(c)
  \/ \E b \in FlowBrowsers, q \in QueryStates, code \in QueryCodes :
        CallbackBegin(b, q, code)
  \/ \E k \in Slots :
        \E res \in ExchangeResults(inflight[k].code,
                                   ProviderStatus(inflight[k].code)) :
           ExchangeReturns(k, res)
  \/ \E k \in Slots, get \in UserInfoResults : UserInfoReturns(k, get)
  \/ \E k \in Slots :
        \E rd \in ReadAllResults(inflight[k].uiStatus) : ReadAllReturns(k, rd)
  \/ \E b \in FlowBrowsers, h \in HostHeaders, tls \in BOOLEAN :
        Logout(b, h, tls)
  \/ \E b \in FlowBrowsers : Profile(b)
  \/ \E cookies \in CraftedCookies : ProfileCrafted(cookies)

\* The requests, with the clock standing still: no cookie of the program
\* expires within TickStep * MaxTicks seconds, so the clock does not decide
\* what the handlers below answer.
Spec == Init /\ [][Next]_vars

\* the requests of the sessions that go through the flow
NextFlow ==
  \/ \E b \in FlowBrowsers, readOk \in BOOLEAN, s \in RandomStrings,
        saveOk \in BOOLEAN : Login(b, readOk, s, saveOk)
  \/ \E c \in Codes : ProviderIssueCode(c)
  \/ \E b \in FlowBrowsers, q \in QueryStates, code \in QueryCodes :
        CallbackBegin(b, q, code)
  \/ \E k \in Slots :
        \E res \in ExchangeResults(inflight[k].code,
                                   ProviderStatus(inflight[k].code)) :
           ExchangeReturns(k, res)
  \/ \E k \in Slots, get \in UserInfoResults : UserInfoReturns(k, get)
  \/ \E k \in Slots :
        \E rd \in ReadAllResults(inflight[k].uiStatus) : ReadAllReturns(k, rd)
  \/ \E b \in FlowBrowsers, h \in HostHeaders, tls \in BOOLEAN :
        Logout(b, h, tls)
  \/ \E b \in FlowBrowsers : Profile(b)

NextClock == NextFlow \/ Tick

\* The requests and the passing of time.
SpecClock == Init /\ [][NextClock]_vars

\* The same, for what must eventually happen.  Time passes; nothing else is
\* certain: a browser need not send a request, and the provider need not
\* answer one.  Exchange runs under the gin context, which has no deadline,
\* and the user-info fetch and the read of its body under
\* context.Background() with a client that has no Timeout, so no step of
\* the program ends a wait.
SpecLive == SpecClock /\ WF_vars(Tick)

\* The server with two callbacks in service at once: the start with
\* MaxRacing request slots
InitRace ==
  /\ now = StartTime
  /\ jar = [b \in Browsers |-> {}]
  /\ codeStatus = [c \in Codes |-> "none"]
  /\ inflight = [k \in RaceSlots |-> Idle]
  /\ last = BaseLast
  /\ lastIssued = [b \in Browsers |-> NoneIssued]
  /\ prevIssued = [b \in Browsers |-> NoneIssued]
  /\ passCount = [b \in Browsers |-> 0]
  /\ granted = {}
  /\ authed = [b \in Browsers |-> FALSE]

\* the login and callback requests of the sessions that go through the flow
NextRace ==
  \/ \E b \in FlowBrowsers, readOk \in BOOLEAN, s \in RandomStrings,
        saveOk \in BOOLEAN : Login(b, readOk, s, saveOk)
  \/ \E c \in Codes : ProviderIssueCode(c)
  \/ \E b \in FlowBrowsers, q \in QueryStates, code \in QueryCodes :
        CallbackBegin(b, q, code)
  \/ \E k \in RaceSlots :
        \E res \in ExchangeResults(inflight[k].code,
                                   ProviderStatus(inflight[k].code)) :
           ExchangeReturns(k, res)
  \/ \E k \in RaceSlots, get \in UserInfoResults :
        UserInfoReturns(k, get)
  \/ \E k \in RaceSlots :
        \E rd \in ReadAllResults(inflight[k].uiStatus) : ReadAllReturns(k, rd)

SpecRace == InitRace /\ [][NextRace]_vars

(***************************************************************************)
(* The claims.                                                             *)
(***************************************************************************)
\* the route guard lets the cookies of browser b through
HoldsCredential(b) == IsAuthenticated(RequestCookies(b, now)).allow

\* C1: a callback whose state parameter is not the state last issued to its
\* session by /login is answered 400 "Invalid state parameter.", whatever
\* its code is; it never reaches the token exchange and sets no cookie.
C1_MismatchRejected ==
  /\ \A k \in Slots : inflight[k].pc # "idle" => inflight[k].qIsIssued
  /\ (last.route = "callback" /\ ~last.qIsIssued) =>
       /\ last.status = StatusBadRequest
       /\ last.body = "Invalid state parameter."
       /\ last.location = NoLocation
       /\ ~last.exchangeAttempted
       /\ last.cookies = {}

\* C1 happens: b1 presents, with a code the provider would exchange, the
\* state that was issued to b2 and not to b1, and is answered 400.
C1_Witness ==
  /\ last.route = "callback" /\ last.browser = "b1"
  /\ last.status = StatusBadRequest
  /\ last.issuedAtReq \notin {NoneIssued, last.qstate}
  /\ last.qstate = lastIssued["b2"]
  /\ last.codeWas = "issued"

\* C2: of the callbacks of a session that present the state of one /login,
\* with no /login in between, at most one passes the state check.
C2_StateSingleUse == \A b \in Browsers : passCount[b] <= 1

\* C3: a callback sets the credential cookies only if the state matched,
\* the exchange succeeded, the token was valid and the user-info fetch
\* succeeded (an error response of the user-info endpoint is a failed fetch).
C3_CookiesOnlyAfterFourChecks ==
  (last.route = "callback" /\ last.cookies # {}) =>
    /\ last.stateMatched
    /\ last.exchangeOk
    /\ last.tokenValid
    /\ last.userinfoOk

\* C4: a /profile request without a credential that a callback issued is
\* redirected (307) to / and the protected handler does not run.
C4_GuardDeniesInvalid ==
  (last.route = "profile" /\ ~last.credValid) =>
    /\ last.status = StatusTemporaryRedirect
    /\ last.location = LocalPath("/")
    /\ ~last.handlerRan

\* C5: a session passes the guard if and only if it completed a successful
\* callback (state matched, exchange succeeded, token valid, user-info
\* fetched) since its last logout.
C5_CredentialIffAuthed ==
  \A b \in Browsers : HoldsCredential(b) <=> authed[b]

\* C6: every /logout response carries the headers that clear access_token
\* and profile; with a Host header that url.Parse rejects it is a 500 with
\* no redirect, otherwise a 307 to the provider's logout URL with client_id
\* and returnTo.
C6_LogoutClears ==
  last.route = "logout" =>
    /\ \E c \in last.cookies : c.name = "access_token" /\ c.value = ""
    /\ \E c \in last.cookies : c.name = "profile" /\ c.value = ""
    /\ IF last.hostHeader = "localhost:x"
       THEN /\ last.status = StatusInternalServerError
            /\ last.location = NoLocation
       ELSE /\ last.status = StatusTemporaryRedirect
            /\ last.location.to = "https://AUTH0_DOMAIN/v2/logout"
            /\ last.location.client_id = ClientID
            /\ last.location.returnTo =
                 (IF last.tls THEN "https://" ELSE "http://")
                   \o last.hostHeader

\* C6 happens: a logout whose returnTo URL cannot be built answers 500 and
\* still carries the two clearing headers.
C6_Witness ==
  /\ last.route = "logout"
  /\ last.hostHeader = "localhost:x"
  /\ last.status = StatusInternalServerError
  /\ Cardinality(last.cookies) = 2

\* C7: a session has at most one pending state and a new /login replaces
\* it: the session holds the state of the last redirecting /login, a
\* callback that presents the state of the /login before it is answered
\* 400, and only a callback that presents the last one passes.
C7_NewLoginOverwrites ==
  /\ \A b \in Browsers :
       /\ Cardinality({c \in jar[b] : c.name = "auth-session"}) <= 1
       /\ lastIssued[b] # NoneIssued =>
            Pending(RequestCookies(b, now)) = lastIssued[b]
  /\ \A k \in Slots : inflight[k].pc # "idle" => inflight[k].qIsIssued
  /\ (/\ last.route = "callback"
      /\ last.exchangeAttempted \/ last.status # StatusBadRequest)
       => last.qIsIssued
  /\ (/\ last.route = "callback"
      /\ last.prevAtReq \notin {NoneIssued, last.issuedAtReq}
      /\ last.qstate = last.prevAtReq)
       => /\ last.status = StatusBadRequest
          /\ ~last.exchangeAttempted

\* C7 happens: after two logins that issued different states, a callback
\* presenting the first one is answered 400.
C7_Witness ==
  /\ last.route = "callback"
  /\ last.prevAtReq \notin {NoneIssued, last.issuedAtReq}
  /\ last.issuedAtReq # NoneIssued
  /\ last.qstate = last.prevAtReq
  /\ last.status = StatusBadRequest

\* C8: a callback whose code was already exchanged, and whose state passes,
\* ends with the token-exchange error: no redirect, no cookie, and the
\* credential the session holds stays as it was.
C8_ReplayFails ==
  (last.route = "callback" /\ last.codeWas = "used") =>
    /\ last.location = NoLocation
    /\ last.cookies = {}
    /\ last.credAfter = last.credBefore
    /\ last.stateMatched =>
         /\ last.exchangeAttempted
         /\ last.status = StatusInternalServerError
         /\ last.body = "\"could not exchange oauth code\""

\* C8 happens: the replayed callback is answered with the exchange error
\* while the session holds the credential of the first callback.
C8_Witness ==
  /\ last.route = "callback" /\ last.codeWas = "used"
  /\ last.exchangeAttempted
  /\ last.status = StatusInternalServerError
  /\ last.credBefore # "" /\ last.credAfter = last.credBefore
  /\ last.credBefore \in granted

\* C9: /login redirects only with a freshly generated state saved in the
\* session; when the generation or the save fails it answers 500 without a
\* redirect, and a failed generation leaves the pending state as it was.
C9_LoginNeedsFreshState ==
  last.route = "login" =>
    /\ (last.genFailed \/ last.saveFailed) =>
         /\ last.status = StatusInternalServerError
         /\ last.location = NoLocation
    /\ last.genFailed =>
         /\ last.cookies = {}
         /\ last.sessAfter = last.sessBefore
    /\ last.location # NoLocation =>
         /\ ~last.genFailed /\ ~last.saveFailed
         /\ last.status = StatusTemporaryRedirect
         /\ last.location.to = "authorize"
         /\ last.genState \in RandomStrings
         /\ last.location.state = last.genState
         /\ last.sessAfter = last.genState

\* C9 happens: the random source fails for a session that has a pending
\* state; the answer is 500 and the pending state is still there.
C9_Witness ==
  /\ last.route = "login" /\ last.genFailed
  /\ last.status = StatusInternalServerError
  /\ last.sessBefore # NoneIssued
  /\ last.sessAfter = last.sessBefore

\* C10: the outcome of a callback is decided by the first step that fails:
\* 400 for a state mismatch, 500 for a failed exchange, an invalid token or
\* a failed user-info fetch, and otherwise the 307 to /profile, which is
\* given exactly when the request set the credential cookies.
C10_OutcomeByFirstFailure ==
  last.route = "callback" =>
    /\ last.status =
         (IF ~last.stateMatched THEN StatusBadRequest
          ELSE IF ~last.exchangeOk \/ ~last.tokenValid \/ ~last.userinfoOk
          THEN StatusInternalServerError
          ELSE StatusTemporaryRedirect)
    /\ (last.status = StatusTemporaryRedirect
          /\ last.location = LocalPath("/profile"))
       <=> (last.cookies # {})

\* a step in which a callback of browser b passes the state comparison and
\* goes on to the token exchange
PassesStateCheck(b) ==
  \E k \in DOMAIN inflight :
    /\ inflight[k].pc = "idle"
    /\ inflight'[k].pc = "exchange"
    /\ inflight'[k].browser = b

\* C11: after /logout on a session that had a pending state, the session
\* holds no pending state: a callback on it that presents the state of the
\* earlier /login does not pass the state comparison.
C11_LogoutInvalidatesState ==
  [][(/\ last.route = "logout"
      /\ lastIssued[last.browser] # NoneIssued)
       => ~PassesStateCheck(last.browser)]_vars

\* C12: after a callback of a session was rejected for its state, a callback
\* of the session that presents the state of the last /login is rejected
\* too, as long as no new /login was made.
C12_FailedCheckConsumesState ==
  [][(/\ last.route = "callback"
      /\ last.status = StatusBadRequest
      /\ last.issuedAtReq # NoneIssued)
       => ~PassesStateCheck(last.browser)]_vars

\* C13: a callback on a session that holds no state is answered 400
\* "Invalid state parameter." whatever its state parameter is, the empty
\* or missing one included; it never reaches the token exchange.
C13_NoPendingStateRejected ==
  /\ \A k \in DOMAIN inflight :
       inflight[k].pc # "idle" => inflight[k].hadState
  /\ (last.route = "callback" /\ ~last.hadState) =>
       /\ last.status = StatusBadRequest
       /\ last.body = "Invalid state parameter."
       /\ last.location = NoLocation
       /\ ~last.exchangeAttempted
       /\ last.cookies = {}

\* C13 happens: a session on which no /login was made sends a callback
\* with no state parameter and a code the provider would exchange, and is
\* answered 400.
C13_Witness ==
  /\ last.route = "callback" /\ last.browser = "b1"
  /\ ~last.hadState
  /\ last.issuedAtReq = NoneIssued
  /\ last.qstate = ""
  /\ last.codeWas = "issued"
  /\ last.status = StatusBadRequest

\* C14: of the callbacks of one session that are in service at the same
\* time and present the state of the same /login, at most one passes the
\* state comparison and goes on to the token exchange.
C14_ConcurrentCallbacksConsumeOnce ==
  \A b \in Browsers :
    Cardinality({k \in DOMAIN inflight :
                   /\ inflight[k].pc # "idle"
                   /\ inflight[k].browser = b
                   /\ inflight[k].fresh}) <= 1

\* C15: a /profile request that presents an access_token cookie set more
\* than one hour ago is denied by the guard: 307 to /, the protected
\* handler does not run.
C15_CredentialExpiresAfterOneHour ==
  (last.route = "profile" /\ last.credAge > Hour) =>
    /\ ~last.handlerRan
    /\ last.status = StatusTemporaryRedirect
    /\ last.location = LocalPath("/")

\* a Set-Cookie that is expired at the time the browser stores it
ExpiredWhenWritten(c) == ~Live(Stored(c, 0), 0)

\* C16: each cookie /logout sets is already expired when it is written and
\* has the name, domain and path under which the callback stored the
\* credential, so that it replaces the stored cookie: a jar never holds two
\* cookies of one name.
C16_LogoutOverwritesWithExpired ==
  /\ \A b \in Browsers : \A n \in {"access_token", "profile"} :
       Cardinality({x \in jar[b] : x.name = n}) <= 1
  /\ last.route = "logout" =>
       \A c \in last.cookies :
         /\ c.name \in {"access_token", "profile"}
         /\ CookieKey(c) = <<c.name, "localhost", "/">>
         /\ ExpiredWhenWritten(c)

\* C17: a /profile request with a non-empty access_token cookie and a
\* profile cookie that json.Unmarshal rejects is handled as unauthenticated:
\* 307 to /, and the page is not rendered.
C17_UnparsableProfileIsUnauthenticated ==
  (last.route = "profile" /\ last.credBefore # "" /\ last.profileErr) =>
    /\ last.status = StatusTemporaryRedirect
    /\ last.location = LocalPath("/")
    /\ last.body = "<a href=\"/\">Temporary Redirect</a>.\n\n"

\* C18: every callback that went on to the provider is eventually answered,
\* whether the provider answers or not.
C18_CallbackEventuallyAnswered ==
  \A k \in Slots : (inflight[k].pc # "idle") ~> (inflight[k].pc = "idle")

\* C19: the state parameter of the authorization URL a /login redirects to
\* is the value the same request saved in the session; a callback of the
\* session that echoes it, with no other /login in between, passes the
\* state comparison.
C19_UrlStateIsSessionState ==
  /\ (last.route = "login" /\ last.location.to = "authorize") =>
       /\ last.location.state = last.sessAfter
       /\ \E c \in last.cookies :
            c.name = "auth-session" /\ c.value = last.location.state
  /\ \A b \in Browsers :
       lastIssued[b] # NoneIssued =>
         ~StateMismatch(lastIssued[b], SessionGet(RequestCookies(b, now)))
  /\ (last.route = "callback" /\ last.qIsIssued) =>
       /\ last.stateMatched
       /\ last.exchangeAttempted
       /\ last.status # StatusBadRequest

\* C19 happens: a callback that echoes the state of the redirect passed the
\* comparison and ended with the redirect to /profile.
C19_Witness ==
  /\ last.route = "callback" /\ last.browser = "b1"
  /\ last.qIsIssued /\ last.stateMatched
  /\ last.status = StatusTemporaryRedirect
  /\ last.location = LocalPath("/profile")
  /\ Pending(RequestCookies("b1", now)) = lastIssued["b1"]

====
